---- MODULE Spec2Model ----
(***************************************************************************)
(* The binding surface of libbcsv: the revisions of the C export header    *)
(* (PtrInfo with a destructor, ManagedBuffer with a free function) and the *)
(* cxx header (unique_ptr wrappers), as one state machine over a heap of   *)
(* buffers, the handle objects that refer to them and the call stack of    *)
(* destructor / free_PtrInfo invocations.                                  *)
(***************************************************************************)
EXTENDS Integers, Sequences, FiniteSets, TLC

\* Bounds of the model.
MaxCalls == 2
MaxLen == 1
StackLimit == 4
MaxExplicit == 1
MaxMoves == 1

\* Program constants.
Null == 0
\* A mask is the set of its set bits: UINT32_MAX is every bit of 32 set.
MaskBits == 32
\* A delimiter is one byte.
ByteBits == 8

UINT32_MAX == 0..(MaskBits - 1)

VARIABLES rev, abi, heap, frees, objs, stack, crashed, calls, last, exports

vars == <<rev, abi, heap, frees, objs, stack, crashed, calls, last, exports>>

\* The revisions of the boundary that compile: libbcsv.h lines 23-48,
\* unnamed/part_002, unnamed/part_001 and libbcsv.hh.
Revisions == {"h2", "p2", "mb", "cxx"}

PtrInfoRevs == {"h2", "p2"}

\* Who ends the lifetime of a by-value argument of class type: the calling
\* C++ code at the end of the full-expression, or the callee (which for
\* free_PtrInfo is not C++ and runs no destructor).
Abis == {"caller_destroys", "callee_destroys"}

Buffers == 1..MaxCalls

Ops == {"decode", "encode", "export"}

\* ---------------------------------------------------------------- signatures

\* The return type each revision declares for an operation ("none": the
\* revision does not declare the operation).
RetType(r, op) ==
  CASE r \in {"h2", "p2"} /\ op \in {"decode", "encode"} -> "PtrInfo"
    [] r = "mb" /\ op \in {"decode", "encode"} -> "MBPtr"
    [] r = "cxx" /\ op \in {"decode", "encode"} -> "UniquePtr"
    [] OTHER -> "void"

\* The handle types for which the revision declares a release path: the
\* parameter type of its free function, or a type with a releasing destructor.
ReleaseAccepts(r) ==
  CASE r \in PtrInfoRevs -> {"PtrInfo"}
    [] r = "mb" -> {"MBPtr"}
    [] r = "cxx" -> {"UniquePtr"}

HasReleasePath(r, type) == type \in ReleaseAccepts(r)

\* The third parameter of csv_to_bcsv in each revision: the column mask, the
\* delimiter byte, or none.
MaskParam(r) ==
  CASE r \in {"h2", "cxx"} -> "required"
    [] r = "mb" -> "delim"
    [] r = "p2" -> "absent"

\* A third argument as the caller writes it: omitted, or a value.
MaskValues == {{}, UINT32_MAX}

MaskArgs == {[given |-> FALSE, val |-> {}]} \cup {[given |-> TRUE, val |-> v] : v \in MaskValues}

\* The comma and the semicolon as delimiter bytes: 44 is the bits 2, 3 and 5,
\* 59 the bits 0, 1, 3, 4 and 5.
Comma == {2, 3, 5}

Semicolon == {0, 1, 3, 4, 5}

\* The delimiter arguments of a bcsv_to_csv call: the revision with a delim
\* parameter requires one, the others take none.
DecodeDelims(r) ==
  IF MaskParam(r) = "delim" THEN {[given |-> TRUE, val |-> d] : d \in {Comma, Semicolon}}
  ELSE {[given |-> FALSE, val |-> {}]}

\* What crosses the boundary in a bcsv_to_csv call: never a mask, and the
\* delimiter where the revision declares one.
DecodeRes(darg) ==
  [ok |-> TRUE, crosses |-> FALSE, val |-> {}, dcrosses |-> darg.given, delim |-> darg.val]

\* The conversion of a value to uint8_t keeps its low bits.
Narrow8(val) == val \cap (0..(ByteBits - 1))

\* Overload resolution of a csv_to_bcsv call: whether the call is well
\* formed, whether a mask crosses the boundary, and which; whether a
\* delimiter crosses, and which (a value written in the delimiter's position
\* is converted to a byte).
ResolveMask(r, marg) ==
  CASE MaskParam(r) = "required" ->
         [ok |-> marg.given, crosses |-> marg.given, val |-> marg.val, dcrosses |-> FALSE, delim |-> {}]
    [] MaskParam(r) = "delim" ->
         [ok |-> marg.given, crosses |-> FALSE, val |-> {},
          dcrosses |-> marg.given, delim |-> Narrow8(marg.val)]
    [] MaskParam(r) = "absent" ->
         [ok |-> ~marg.given, crosses |-> FALSE, val |-> {}, dcrosses |-> FALSE, delim |-> {}]

\* What bcsv_to_xlsx hands back to its caller: it returns void and every
\* parameter is const.
ExportOutput(r, ok) == "void"

\* -------------------------------------------------------------------- engine

Sources == {"unreadable", "empty", "table"}

\* The endianness byte: 0 or 1.
Endians == {0, 1}

Bit(mask, i) == IF i \in mask THEN 1 ELSE 0

FieldCount(mask) == Cardinality({i \in 0..(MaxLen - 1) : Bit(mask, i) = 1})

\* The conversion engine: failure, or a byte sequence of some length.
Engine(op, src, res) ==
  IF src = "unreadable" THEN [ok |-> FALSE, len |-> 0]
  ELSE IF src = "empty" THEN [ok |-> TRUE, len |-> 0]
  ELSE IF op = "encode" /\ res.crosses THEN [ok |-> TRUE, len |-> FieldCount(res.val)]
  ELSE [ok |-> TRUE, len |-> MaxLen]

Outcome(e) == IF ~e.ok THEN "fail" ELSE IF e.len = 0 THEN "empty" ELSE "data"

\* The engine reports failure by value: the bridge functions are noexcept.
EngineHow(r) == "returned"

\* ---------------------------------------------------------------------- heap

Allocated == {b \in Buffers : heap[b].st # "unalloc"}

NextBuf == Cardinality(Allocated) + 1

Allocs == Cardinality(Allocated)

\* The buffer that now occupies an address: the newest one placed there.
Occupant(a) == CHOOSE b \in Allocated : heap[b].addr = a /\ \A c \in Allocated : heap[c].addr = a => c <= b

\* The buffer a pointer to b refers to now: b, or a later buffer that the
\* allocator placed at b's address after b was freed.
Target(b) == Occupant(heap[b].addr)

\* Where the allocator may place the next buffer: at a fresh address, or at
\* the address of a buffer that has been freed.
AddrChoices == {NextBuf} \cup {heap[b].addr : b \in {x \in Allocated : heap[Target(x)].st = "freed"}}

Alloc(len, a) == [heap EXCEPT ![NextBuf] = [st |-> "alloc", len |-> len, addr |-> a]]

RECURSIVE SumFrees(_)
SumFrees(S) == IF S = {} THEN 0 ELSE LET b == CHOOSE x \in S : TRUE IN frees[b] + SumFrees(S \ {b})

Releases == SumFrees(Buffers)

\* --------------------------------------------------------------------- handles

\* The index that names no object.
NoObj == Len(<<>>)

Handle(type, ptr, len, role, from) ==
  [type |-> type, ptr |-> ptr, len |-> len, live |-> TRUE, role |-> role,
   from |-> from, rel |-> FALSE, explicit |-> 0, uar |-> FALSE, late |-> FALSE,
   freed |-> FALSE, refreed |-> FALSE]

\* The implicit copy constructor of PtrInfo: a member-wise copy. The copy is
\* "late" when the handle it is taken from has been released before.
CopyOf(i) ==
  [Handle(objs[i].type, objs[i].ptr, objs[i].len, "arg", i) EXCEPT !.late = objs[i].rel]

\* A wrapper that drops the bridge's pointer instead of owning it.
CxxWrapLeak(raw) == Handle("UniquePtr", Null, 0, "var", NoObj)

\* A wrapper that reports an empty vector as no vector.
CxxWrapNullIfEmpty(raw) ==
  IF raw.len = 0 THEN Handle("UniquePtr", Null, 0, "var", NoObj)
  ELSE Handle("UniquePtr", raw.ptr, raw.len, "var", NoObj)

\* std::unique_ptr<std::vector<std::uint8_t>>(raw): the wrapper owns raw.
CxxWrap(raw) == Handle("UniquePtr", raw.ptr, raw.len, "var", NoObj)

\* The pointer the engine hands back: a new buffer, or null on failure.
Raw(e) == [ptr |-> IF e.ok THEN NextBuf ELSE Null, len |-> e.len]

\* The value a call returns for an engine result, in the revision's shape.
Returned(r, op, e) ==
  LET raw == Raw(e)
  IN IF r = "cxx" THEN CxxWrap(raw)
     ELSE Handle(RetType(r, op), raw.ptr, raw.len, "var", NoObj)

\* The arguments of a call, by parameter name.
Args(endian, mask) ==
  [path |-> "path", data |-> "data", output |-> "output", endian |-> endian, mask |-> mask]

NoArgs == Args(0, {})

\* The parameters of each bridge function, in declaration order.
BridgeParams(op) ==
  CASE op = "decode" -> <<"path", "data", "endian">>
    [] op = "encode" -> <<"path", "endian", "mask">>
    [] op = "export" -> <<"path", "data", "output", "endian">>

\* A wrapper that passes a fixed endianness instead of its parameter.
CxxBridgeCallsFixedEndian(op, A) ==
  CASE op = "decode" -> <<[fn |-> "decode", args |-> <<A.path, A.data, 0>>]>>
    [] op = "encode" -> <<[fn |-> "encode", args |-> <<A.path, 0, A.mask>>]>>
    [] op = "export" -> <<[fn |-> "export", args |-> <<A.path, A.data, A.output, 0>>]>>

\* The bridge invocations a libbcsv:: wrapper makes for its arguments A.
CxxBridgeCalls(op, A) ==
  CASE op = "decode" -> <<[fn |-> "decode", args |-> <<A.path, A.data, A.endian>>]>>
    [] op = "encode" -> <<[fn |-> "encode", args |-> <<A.path, A.endian, A.mask>>]>>
    [] op = "export" -> <<[fn |-> "export", args |-> <<A.path, A.data, A.output, A.endian>>]>>

\* The bridge invocations of a call: the other revisions have no wrapper.
BridgeCalls(r, op, A) == IF r = "cxx" THEN CxxBridgeCalls(op, A) ELSE <<>>

\* What the caller reads off a returned handle: whether it is null, and its
\* length.
Observed(h) == [null |-> h.ptr = Null, len |-> h.len]

Idle == stack = <<>> /\ ~crashed

Init ==
  /\ rev \in Revisions
  /\ abi \in IF rev \in PtrInfoRevs THEN Abis ELSE {"none"}
  /\ heap = [b \in Buffers |-> [st |-> "unalloc", len |-> 0, addr |-> Null]]
  /\ frees = [b \in Buffers |-> 0]
  /\ objs = <<>>
  /\ stack = <<>>
  /\ crashed = FALSE
  /\ calls = 0
  /\ last = [op |-> "none", src |-> "none", accepted |-> TRUE, given |-> FALSE, mask |-> {}, crosses |-> FALSE,
             outcome |-> "none", null |-> TRUE, len |-> 0, type |-> "none",
             how |-> "none", out |-> "none", dcrosses |-> FALSE, delim |-> {},
             args |-> NoArgs, bridge |-> <<>>, raw |-> Null, owns |-> Null,
             explicitRes |-> [accepted |-> FALSE, ok |-> FALSE, len |-> 0],
             res |-> [accepted |-> FALSE, ok |-> FALSE, len |-> 0]]
  /\ exports = {}

\* The outcome of a csv_to_bcsv call as the caller wrote it: rejected by the
\* declaration, or the engine's result.
EncodeResult(r, src, marg) ==
  LET rm == ResolveMask(r, marg)
      e == Engine("encode", src, rm)
  IN IF rm.ok THEN [accepted |-> TRUE, ok |-> e.ok, len |-> e.len]
     ELSE [accepted |-> FALSE, ok |-> FALSE, len |-> 0]

NoResult == [accepted |-> FALSE, ok |-> FALSE, len |-> 0]

NoMaskRes == [ok |-> TRUE, crosses |-> FALSE, val |-> {}, dcrosses |-> FALSE, delim |-> {}]

CallRecord(op, src, endian, marg, rm, e, h, out, res, eres) ==
  [args |-> Args(endian, rm.val), bridge |-> BridgeCalls(rev, op, Args(endian, rm.val)),
   raw |-> IF op = "export" THEN Null ELSE Raw(e).ptr, owns |-> h.ptr,
   dcrosses |-> rm.dcrosses, delim |-> rm.delim,
   op |-> op, src |-> src, accepted |-> rm.ok, given |-> marg.given, mask |-> rm.val, crosses |-> rm.crosses,
   outcome |-> Outcome(e), null |-> Observed(h).null, len |-> Observed(h).len, type |-> h.type,
   how |-> EngineHow(rev), out |-> out, explicitRes |-> eres, res |-> res]

\* ------------------------------------------------------------------ operations

\* bcsv_to_csv: the engine's result is handed to the caller in the revision's
\* return type.
Decode(src, endian, darg) ==
  /\ Idle /\ calls < MaxCalls
  /\ LET e == Engine("decode", src, DecodeRes(darg))
         h == Returned(rev, "decode", e)
     IN /\ objs' = Append(objs, h)
        /\ \E a \in AddrChoices : heap' = IF e.ok THEN Alloc(e.len, a) ELSE heap
        /\ last' = CallRecord("decode", src, endian, [given |-> FALSE, val |-> {}], DecodeRes(darg), e, h, "handle",
                              NoResult, NoResult)
  /\ calls' = calls + 1
  /\ UNCHANGED <<rev, abi, frees, stack, crashed, exports>>

\* csv_to_bcsv, written with or without a mask argument.
Encode(src, endian, marg) ==
  /\ Idle /\ calls < MaxCalls
  /\ LET rm == ResolveMask(rev, marg)
         e == Engine("encode", src, rm)
         h == Returned(rev, "encode", e)
         res == EncodeResult(rev, src, marg)
         eres == EncodeResult(rev, src, [given |-> TRUE, val |-> UINT32_MAX])
     IN IF rm.ok
        THEN /\ objs' = Append(objs, h)
             /\ \E a \in AddrChoices : heap' = IF e.ok THEN Alloc(e.len, a) ELSE heap
             /\ last' = CallRecord("encode", src, endian, marg, rm, e, h, "handle", res, eres)
        ELSE /\ UNCHANGED <<objs, heap>>
             /\ last' = [CallRecord("encode", src, endian, marg, rm, e, h, "rejected", res, eres)
                           EXCEPT !.outcome = "none", !.how = "none", !.type = "none",
                                  !.bridge = <<>>, !.raw = Null, !.owns = Null]
  /\ calls' = calls + 1
  /\ UNCHANGED <<rev, abi, frees, stack, crashed, exports>>

\* bcsv_to_xlsx: the engine writes the file or fails; the call returns void.
Export(src, endian) ==
  /\ Idle /\ calls < MaxCalls
  /\ RetType(rev, "export") = "void"
  /\ LET e == Engine("export", src, NoMaskRes)
         out == ExportOutput(rev, e.ok)
     IN /\ exports' = exports \cup {<<out, e.ok>>}
        /\ last' = [CallRecord("export", src, endian, [given |-> FALSE, val |-> {}], NoMaskRes, e,
                               Handle("none", Null, 0, "var", NoObj), out, NoResult, NoResult)
                      EXCEPT !.outcome = IF e.ok THEN "done" ELSE "fail"]
  /\ calls' = calls + 1
  /\ UNCHANGED <<rev, abi, heap, frees, objs, stack, crashed>>

Top == stack[Len(stack)]

Pop == SubSeq(stack, 1, Len(stack) - 1)

Frame(fn, o, pc) == [fn |-> fn, obj |-> o, pc |-> pc]

RECURSIVE ExplicitUpTo(_)
ExplicitUpTo(n) == IF n = 0 THEN 0 ELSE objs[n].explicit + ExplicitUpTo(n - 1)

\* The explicit free_PtrInfo calls written so far.
Explicits == ExplicitUpTo(Len(objs))

\* The caller writes free_PtrInfo(p): p is copied into the by-value parameter.
CallFree(i) ==
  /\ Idle /\ rev \in PtrInfoRevs
  /\ objs[i].type = "PtrInfo" /\ objs[i].live /\ objs[i].role = "var"
  /\ Explicits < MaxExplicit
  /\ objs' = Append([objs EXCEPT ![i].explicit = @ + 1, ![i].uar = @ \/ objs[i].rel], CopyOf(i))
  /\ stack' = <<Frame("free", Len(objs) + 1, "entry")>>
  /\ UNCHANGED <<rev, abi, heap, frees, crashed, calls, last, exports>>

\* The caller's PtrInfo goes out of scope: ~PtrInfo() is entered.
DtorBegin(i) ==
  /\ Idle /\ rev \in PtrInfoRevs
  /\ objs[i].type = "PtrInfo" /\ objs[i].live /\ objs[i].role = "var"
  /\ objs' = [objs EXCEPT ![i].live = FALSE]
  /\ stack' = <<Frame("dtor", i, "body")>>
  /\ UNCHANGED <<rev, abi, heap, frees, crashed, calls, last, exports>>

\* The body of ~PtrInfo(): free_PtrInfo(*this), which copies *this into the
\* by-value parameter. A call deeper than the stack allows overflows.
DtorCallFree ==
  /\ ~crashed /\ stack # <<>> /\ Top.fn = "dtor" /\ Top.pc = "body"
  /\ IF Len(stack) >= StackLimit
     THEN /\ crashed' = TRUE
          /\ UNCHANGED <<objs, stack>>
     ELSE /\ objs' = Append([objs EXCEPT ![Top.obj].uar = @ \/ objs[Top.obj].rel], CopyOf(Top.obj))
          /\ stack' = Append([stack EXCEPT ![Len(stack)].pc = "after"],
                             Frame("free", Len(objs) + 1, "entry"))
          /\ UNCHANGED crashed
  /\ UNCHANGED <<rev, abi, heap, frees, calls, last, exports>>

\* Whether free_PtrInfo frees storage for the argument: a null ptr owns none.
Frees(h) == h.ptr # Null

\* The body of free_PtrInfo: the storage at the address the argument points
\* to is freed. Freeing storage that is already free is undefined: the run
\* aborts or goes on.
FreeBody ==
  /\ ~crashed /\ stack # <<>> /\ Top.fn = "free" /\ Top.pc = "entry"
  /\ LET a == Top.obj
         b == IF Frees(objs[a]) THEN Target(objs[a].ptr) ELSE Null
         marked == [objs EXCEPT ![a].rel = TRUE, ![a].freed = Frees(objs[a])]
     IN IF Frees(objs[a])
        THEN /\ frees' = [frees EXCEPT ![b] = @ + 1]
             /\ heap' = [heap EXCEPT ![b].st = "freed"]
             /\ objs' = IF objs[a].from = NoObj THEN marked
                        ELSE [marked EXCEPT ![objs[a].from].rel = TRUE]
             /\ IF heap[b].st = "freed" THEN crashed' \in BOOLEAN ELSE UNCHANGED crashed
        ELSE UNCHANGED <<frees, heap, objs, crashed>>
  /\ stack' = [stack EXCEPT ![Len(stack)].pc = "ret"]
  /\ UNCHANGED <<rev, abi, calls, last, exports>>

\* free_PtrInfo returns and the lifetime of its parameter ends: the calling
\* code runs the parameter's destructor, or nobody does and the parameter,
\* the newest object, is gone (what its release did is noted on the handle it
\* was copied from).
FreeReturn ==
  /\ ~crashed /\ stack # <<>> /\ Top.fn = "free" /\ Top.pc = "ret"
  /\ IF abi = "caller_destroys"
     THEN /\ objs' = [objs EXCEPT ![Top.obj].live = FALSE]
          /\ stack' = Append(Pop, Frame("dtor", Top.obj, "body"))
     ELSE /\ objs' = [SubSeq(objs, 1, Len(objs) - 1) EXCEPT
                        ![objs[Top.obj].from].refreed = @ \/ (objs[Top.obj].late /\ objs[Top.obj].freed)]
          /\ stack' = Pop
  /\ UNCHANGED <<rev, abi, heap, frees, crashed, calls, last, exports>>

\* ~PtrInfo() returns.
DtorReturn ==
  /\ ~crashed /\ stack # <<>> /\ Top.fn = "dtor" /\ Top.pc = "after"
  /\ stack' = Pop
  /\ UNCHANGED <<rev, abi, heap, frees, objs, crashed, calls, last, exports>>

\* The caller writes free_managed_buffer(p) on a pointer it holds: the
\* storage a non-null p points to is freed; freeing storage that is already
\* free is undefined (the run aborts or goes on).
FreeManaged(i) ==
  /\ Idle /\ rev = "mb"
  /\ objs[i].type = "MBPtr" /\ objs[i].live
  /\ Explicits < MaxExplicit
  /\ IF objs[i].ptr # Null
     THEN /\ frees' = [frees EXCEPT ![Target(objs[i].ptr)] = @ + 1]
          /\ heap' = [heap EXCEPT ![Target(objs[i].ptr)].st = "freed"]
          /\ objs' = [objs EXCEPT ![i].rel = TRUE, ![i].explicit = @ + 1, ![i].uar = @ \/ objs[i].rel]
          /\ IF heap[Target(objs[i].ptr)].st = "freed" THEN crashed' \in BOOLEAN ELSE UNCHANGED crashed
     ELSE /\ objs' = [objs EXCEPT ![i].explicit = @ + 1]
          /\ UNCHANGED <<frees, heap, crashed>>
  /\ UNCHANGED <<rev, abi, stack, calls, last, exports>>

\* A ManagedBuffer pointer variable goes out of scope: nothing runs.
PtrEnd(i) ==
  /\ Idle
  /\ objs[i].type = "MBPtr" /\ objs[i].live
  /\ objs' = [objs EXCEPT ![i].live = FALSE]
  /\ UNCHANGED <<rev, abi, heap, frees, stack, crashed, calls, last, exports>>

Moves == Cardinality({i \in 1..Len(objs) : objs[i].type = "UniquePtr" /\ objs[i].from # NoObj})

\* The caller moves the unique_ptr: the target owns, the source is empty.
UniqueMove(i) ==
  /\ Idle /\ rev = "cxx" /\ Moves < MaxMoves
  /\ objs[i].type = "UniquePtr" /\ objs[i].live
  /\ objs' = Append([objs EXCEPT ![i].ptr = Null, ![i].len = 0],
                    Handle("UniquePtr", objs[i].ptr, objs[i].len, "var", i))
  /\ UNCHANGED <<rev, abi, heap, frees, stack, crashed, calls, last, exports>>

\* The unique_ptr's lifetime ends: default_delete deletes a non-null pointer.
UniqueDestroy(i) ==
  /\ Idle /\ rev = "cxx"
  /\ objs[i].type = "UniquePtr" /\ objs[i].live
  /\ IF objs[i].ptr # Null
     THEN /\ frees' = [frees EXCEPT ![Target(objs[i].ptr)] = @ + 1]
          /\ heap' = [heap EXCEPT ![Target(objs[i].ptr)].st = "freed"]
          /\ objs' = [objs EXCEPT ![i].live = FALSE, ![i].rel = TRUE]
     ELSE /\ objs' = [objs EXCEPT ![i].live = FALSE]
          /\ UNCHANGED <<frees, heap>>
  /\ UNCHANGED <<rev, abi, stack, crashed, calls, last, exports>>

Next ==
  \/ \E src \in Sources, endian \in Endians, darg \in DecodeDelims(rev) : Decode(src, endian, darg)
  \/ \E src \in Sources, endian \in Endians, marg \in MaskArgs : Encode(src, endian, marg)
  \/ \E src \in Sources, endian \in Endians : Export(src, endian)
  \/ \E i \in 1..Len(objs) : CallFree(i)
  \/ \E i \in 1..Len(objs) : DtorBegin(i)
  \/ DtorCallFree
  \/ FreeBody
  \/ FreeReturn
  \/ DtorReturn
  \/ \E i \in 1..Len(objs) : FreeManaged(i)
  \/ \E i \in 1..Len(objs) : PtrEnd(i)
  \/ \E i \in 1..Len(objs) : UniqueMove(i)
  \/ \E i \in 1..Len(objs) : UniqueDestroy(i)

Spec == Init /\ [][Next]_vars

TypeOK ==
  /\ rev \in Revisions /\ abi \in Abis \cup {"none"}
  /\ crashed \in BOOLEAN
  /\ calls \in 0..MaxCalls
  /\ Len(stack) <= StackLimit

\* ---------------------------------------------------------------------- claims

Objects == 1..Len(objs)

InDtorBody(i) == \E k \in 1..Len(stack) : stack[k] = Frame("dtor", i, "body")

\* The handle types with a release of their own: a destructor.
OwningTypes == {"PtrInfo", "UniquePtr"}

\* The handle objects that hold buffer b and have not given it up.
Owners(b) == {i \in Objects : objs[i].ptr = b /\ (objs[i].live \/ InDtorBody(i))}

\* Every handle's lifetime has ended and nothing is running.
Quiescent == Idle /\ objs # <<>> /\ \A i \in Objects : ~objs[i].live

\* C1: in the manual flavor every allocated buffer is released at most once,
\* whatever sequence of calls, explicit frees and destructor runs happens.
C1_ReleasedAtMostOnce == rev # "cxx" => \A b \in Buffers : frees[b] <= 1

\* C2: every allocated, not yet released buffer has exactly one live owning
\* handle; handing a handle over never leaves two.
C2_SingleOwner ==
  \A b \in Buffers :
    (heap[b].st = "alloc" /\ \E i \in Objects : objs[i].ptr = b /\ objs[i].type \in OwningTypes)
      => Cardinality(Owners(b)) = 1

\* C3: the first release of a PtrInfo nulls its pointer, and a later release
\* of the same handle frees nothing.
C3_GuardedRelease ==
  \A i \in Objects : objs[i].type = "PtrInfo" =>
    /\ (objs[i].live /\ objs[i].rel) => objs[i].ptr = Null
    /\ objs[i].late => ~objs[i].freed
    /\ ~objs[i].refreed

\* C4: every returned buffer has a release path declared by its revision, and
\* once every handle's lifetime has ended releases equal allocations.
C4_ReleasePathNoLeak ==
  /\ \A i \in Objects : objs[i].ptr # Null => HasReleasePath(rev, objs[i].type)
  /\ Quiescent => Releases = Allocs

\* C5: Released is terminal: a released handle's pointer and length are never
\* read again, and a released buffer never becomes allocated again.
C5_ReleasedIsTerminal ==
  /\ \A i \in Objects : ~objs[i].uar
  /\ \A b \in Buffers : frees[b] > 0 => heap[b].st = "freed"

\* C6: in the automatic-release flavor a buffer is owned by exactly one live
\* unique_ptr and unreleased, or owned by none and released exactly once; the
\* caller calls no release function; a move carries the obligation along.
C6_AutoReleaseOnce ==
  rev = "cxx" =>
    /\ \A b \in Allocated :
         LET own == {i \in Objects : objs[i].live /\ objs[i].ptr = b}
         IN IF own # {}
            THEN Cardinality(own) = 1 /\ heap[b].st = "alloc" /\ frees[b] = 0
            ELSE heap[b].st = "freed" /\ frees[b] = 1
    /\ \A i \in Objects : objs[i].explicit = 0

\* A moved-to unique_ptr has ended its lifetime and released its buffer, while
\* the moved-from one released nothing.
C6_Witness ==
  /\ rev = "cxx"
  /\ \E i \in Objects :
       /\ objs[i].from # NoObj /\ ~objs[i].live /\ objs[i].rel
       /\ frees[objs[i].ptr] = 1
       /\ ~objs[objs[i].from].live /\ ~objs[objs[i].from].rel

\* C7: a decode or encode reports failure as a null handle and an empty
\* result as a non-null handle of length zero, so the two are told apart.
C7_FailureVsEmpty ==
  (last.op \in {"decode", "encode"} /\ last.accepted) =>
    /\ last.outcome = "fail" <=> last.null
    /\ last.outcome = "empty" => (~last.null /\ last.len = 0)
    /\ last.outcome = "data" => (~last.null /\ last.len > 0)

\* A run with a failed call (null handle) followed by an empty success.
C7_Witness ==
  /\ last.op \in {"decode", "encode"} /\ last.outcome = "empty" /\ ~last.null /\ last.len = 0
  /\ Len(objs) = 2 /\ objs[1].ptr = Null

\* C8: a failed and a successful export differ in what the call hands back.
C8_ExportSignalsFailure ==
  \A x \in exports, y \in exports : x[1] = y[1] => x[2] = y[2]

\* C9: a csv_to_bcsv call written without a mask is accepted, passes the
\* all-bits-set mask and gives the result of the call with that mask written.
C9_MaskDefault ==
  (last.op = "encode" /\ ~last.given) =>
    /\ last.accepted /\ last.crosses /\ last.mask = UINT32_MAX
    /\ last.res = last.explicitRes

\* The value that is the operation's failure signal.
IsFailureSignal(rec) ==
  IF rec.op = "export" THEN rec.out \in {"false", "failed"} ELSE rec.null

\* C10: every completed call returns (no exception propagates), and a failed
\* one returns the operation's failure signal.
C10_FailureIsReturned ==
  (last.op \in Ops /\ last.accepted) =>
    /\ last.how = "returned"
    /\ last.outcome = "fail" => IsFailureSignal(last)

\* The two binding flavors.
Flavor(r) == IF r = "cxx" THEN "automatic" ELSE "manual"

\* The mask a request asks for: a call that passes none asks for every field.
RequestMask(given, val) == IF given THEN val ELSE UINT32_MAX

\* The third argument a caller of revision r can write for a requested mask:
\* the mask, or where the parameter is the delimiter, the delimiter.
Express(r, mask) ==
  CASE MaskParam(r) = "absent" -> [given |-> FALSE, val |-> {}]
    [] MaskParam(r) = "delim" -> [given |-> TRUE, val |-> Comma]
    [] MaskParam(r) = "required" -> [given |-> TRUE, val |-> mask]

\* What a caller of revision r observes for a request.
FlavorResult(r, op, src, mask) ==
  LET e == Engine(op, src, IF op = "encode" THEN ResolveMask(r, Express(r, mask)) ELSE NoMaskRes)
      o == Observed(Returned(r, op, e))
  IN IF op = "export" THEN [null |-> TRUE, len |-> 0, out |-> ExportOutput(r, e.ok)]
     ELSE [null |-> o.null, len |-> o.len, out |-> "handle"]

\* C11: for the request of any completed call, every revision of the other
\* flavor that declares the operation gives the same outcome and length.
C11_FlavorsEquivalent ==
  (last.op \in Ops /\ last.accepted) =>
    \A r2 \in Revisions :
      (Flavor(r2) # Flavor(rev) /\ RetType(r2, last.op) # "none") =>
        FlavorResult(r2, last.op, last.src, RequestMask(last.crosses, last.mask))
          = FlavorResult(rev, last.op, last.src, RequestMask(last.crosses, last.mask))

\* The handles a call returned to its caller, or that were moved from one.
CallerHandles == {i \in Objects : objs[i].role = "var"}

\* C12: every call produces a buffer of its own: two unreleased live handles
\* never refer to the same storage, and the buffer of an unreleased live
\* handle is allocated, whatever the other callers released.
C12_CallersIndependent ==
  /\ \A i \in CallerHandles, j \in CallerHandles :
       (i # j /\ objs[i].live /\ objs[j].live /\ ~objs[i].rel /\ ~objs[j].rel
          /\ objs[i].ptr # Null /\ objs[j].ptr # Null)
         => heap[objs[i].ptr].addr # heap[objs[j].ptr].addr
  /\ \A i \in CallerHandles :
       (objs[i].live /\ ~objs[i].rel /\ objs[i].ptr # Null) => heap[objs[i].ptr].st = "alloc"

\* The call stack is exhausted inside a destructor.
StackOverflow ==
  crashed /\ stack # <<>> /\ Top.fn = "dtor" /\ Top.pc = "body" /\ Len(stack) >= StackLimit

\* C13: destroying a PtrInfo, null or not, completes: the chain of destructor
\* and free_PtrInfo invocations it starts never exhausts the call stack.
C13_DestructorTerminates == ~StackOverflow

\* The free_PtrInfo invocations made by a destructor.
DtorFrees == {k \in 2..Len(stack) : stack[k].fn = "free" /\ stack[k - 1].fn = "dtor"}

\* C14: the end of a failed call's handle triggers no release: no destructor
\* invokes free_PtrInfo on a null PtrInfo, no release is recorded on a null
\* handle, and only allocated buffers are released.
C14_FailureTriggersNoRelease ==
  /\ \A k \in DtorFrees : objs[stack[k].obj].ptr # Null
  /\ \A i \in Objects : objs[i].ptr = Null => (~objs[i].rel /\ ~objs[i].freed)
  /\ \A b \in Buffers : frees[b] > 0 => b \in Allocated

\* C15: a libbcsv:: wrapper invokes its bridge function exactly once, with
\* each of its arguments in the position of the bridge parameter of the same
\* name, and the handle it returns owns exactly the pointer the bridge returned.
C15_WrapperTransparent ==
  (rev = "cxx" /\ last.op \in Ops /\ last.accepted) =>
    /\ Len(last.bridge) = 1
    /\ last.bridge[1].fn = last.op
    /\ last.bridge[1].args =
         [k \in 1..Len(BridgeParams(last.op)) |-> last.args[BridgeParams(last.op)[k]]]
    /\ last.owns = last.raw

\* An encode through the wrapper with endianness 1 and an empty mask that
\* returned a buffer, which the returned unique_ptr owns.
C15_Witness ==
  /\ rev = "cxx" /\ last.op = "encode" /\ last.accepted
  /\ last.args.endian = 1 /\ last.args.mask = {}
  /\ Len(last.bridge) = 1 /\ last.raw # Null /\ last.owns = last.raw

====
